---- MODULE Spec2Model ----
(***************************************************************************)
(* A model of the OAuth handshake of kite-mcp: OAuthServer (the local      *)
(* callback listener, the pending promise of startAuthFlow, its 5-minute   *)
(* timeout timer and the 1-second grace-shutdown timers) and the token     *)
(* file that TokenManager.saveToken writes.                                *)
(*                                                                         *)
(* Timers carry their delay and their place in the order of creation; the  *)
(* model keeps the order in which they can become due, not the dates.      *)
(*                                                                         *)
(* JavaScript runs each handler to its next await without interleaving,    *)
(* so every action below is one such run: the promise executor of          *)
(* startAuthFlow, the part of the fetch handler before the session         *)
(* exchange is awaited, the part after it, a timer callback, stop().       *)
(***************************************************************************)
EXTENDS Integers, Sequences, FiniteSets, TLC

\* ---------------------------------------------------------------- bounds
MaxFlows == 2      \* calls of startAuthFlow on the one OAuthServer instance
MaxReqs  == 2      \* callback requests accepted over the whole run
MaxTime  == 1      \* ticks of the wall clock

\* ------------------------------------------------------ program constants
GraceDelayMs  == 1000      \* setTimeout(..., 1000) after a callback
AuthTimeoutMs == 300000    \* setTimeout(..., 5 * 60 * 1000)

TimeoutReason == "Authentication timeout - no callback received within 5 minutes"
GenericCallbackError == "OAuth callback failed"
SessionFailedPrefix == "Session generation failed: "
SaveFailedPrefix == "Failed to save token: "
UnknownError == "Unknown error"

\* The value of URLSearchParams.get for a parameter the query does not hold.
\* No query of the model carries this text as a value.
null == "<null>"

\* An error thrown by Bun.serve when the port cannot be bound.
ListenError == "EADDRINUSE"
\* The message of a file-system error raised under saveToken.
WriteError == "EACCES"

Flows == 1..MaxFlows

\* ------------------------------------------------------------ token data
NoToken == [none |-> TRUE]
NoFile  == [missing |-> TRUE]
\* A record a previous authentication left in the token file.
OldToken == [access_token |-> "tok0", refresh_token |-> "ref0", user_id |-> "AB0000",
             user_name |-> "old", generated_at |-> [iso |-> 0]]

\* Date.prototype.toISOString: the text of the instant t.
toISOString(t) == [iso |-> t]
\* A generated_at that is undefined, and one that is the empty string.
UndefinedTime == [undefined |-> TRUE]
EmptyTime == [empty |-> TRUE]

\* What kiteConnect.generateSession can answer.
SessionResponses ==
  { [access_token |-> "tokA", refresh_token |-> "refA", user_id |-> "AB1234", user_name |-> "alice"],
    [access_token |-> "tokB", refresh_token |-> "refB", user_id |-> "CD5678", user_name |-> "bob"] }

\* What kiteConnect.generateSession can throw: an Error instance, or any other
\* value (the code tests `error instanceof Error`).
SessionErrors ==
  { [isError |-> TRUE,  message |-> "Token is invalid or has expired."],
    [isError |-> FALSE, message |-> "Invalid checksum"] }

\* The queries of the callback requests the model sends.
CallbackUrls ==
  { [status |-> "success", request_token |-> "abc", error_type |-> null],
    [status |-> "success", request_token |-> "",    error_type |-> "access_denied"],
    [status |-> "failure", request_token |-> null,  error_type |-> ""],
    [status |-> null,      request_token |-> "abc", error_type |-> null] }

\* setTimeout timers that can be armed at once: one per flow, one per request.
MaxTimers == MaxFlows + MaxReqs

VARIABLES
  server,      \* this.server: 0 for null, else the flow whose Bun.serve result it holds
  nflows,      \* how many times startAuthFlow has been called
  promise,     \* per flow: the promise startAuthFlow returned
  timeoutId,   \* per flow: the closure's timeoutId and the state of its timer
  listener,    \* per flow: the listener its Bun.serve call opened
  inflight,    \* the callback requests whose handler awaits generateSession
  nreqs,       \* how many callback requests the listeners have accepted
  timers,      \* the armed setTimeout timers, in order of creation
  httpStatus,  \* the status of the latest Response a handler returned (0: none yet)
  tokenFile,   \* the contents of access_token.json
  now,         \* the wall clock
  settledBy,   \* history: per flow, what settled its promise
  ret,         \* what the latest call of a TokenManager method returned or threw
  getter,      \* the getValidToken / getValidTokenData call between its two reads
  isAuthenticated,  \* KiteClient.isAuthenticated
  accessToken, \* the access token set on the KiteConnect of KiteClient
  apiCalls,    \* the brokerage API calls KiteClient awaits
  reply,       \* the outcome of the latest KiteClient method or MCP tool call
  entry        \* where the auth script's authenticate() is

vars == <<server, nflows, promise, timeoutId, listener, inflight, nreqs, timers,
          httpStatus, tokenFile, now, settledBy, ret, getter,
          isAuthenticated, accessToken, apiCalls, reply, entry>>

\* The state of the callers of TokenManager, which OAuthServer leaves alone.
callVars == <<ret, getter>>

\* The state of the KiteClient of the MCP server, and with it that of the auth
\* script: what OAuthServer and TokenManager leave alone.
mcpVars == <<isAuthenticated, accessToken, apiCalls, reply>>
processVars == <<mcpVars, entry>>

\* No KiteClient method and no MCP tool call has finished yet.
NoReply == [kind |-> "none", code |-> "", invoked |-> FALSE, message |-> "",
            content |-> [none |-> TRUE]]

\* No KiteClient is constructed and authenticate() has not run.
NoProcess ==
  /\ isAuthenticated = FALSE
  /\ accessToken = null
  /\ apiCalls = <<>>
  /\ reply = NoReply
  /\ entry = "none"

\* No call of a TokenManager method has returned yet.
NoCall == [op |-> "none", arg |-> NoToken, threw |-> FALSE, value |-> FALSE]
\* No getValidToken / getValidTokenData call is between its two reads.
NoGetter == "idle"

\* seq without its i-th element.
Remove(seq, i) == SubSeq(seq, 1, i - 1) \o SubSeq(seq, i + 1, Len(seq))

\* ---------------------------------------------------------------- promise
PendingPromise == [st |-> "pending", value |-> NoToken, reason |-> ""]
NoPromise == [st |-> "unstarted", value |-> NoToken, reason |-> ""]

\* A resolve that settles again a promise that is settled already.
resolveAgain(p, value) ==
  [st |-> "resolved", value |-> value, reason |-> ""]

\* resolve(value) of a Promise: the first settlement wins.
resolve(p, value) ==
  IF p.st = "pending" THEN [st |-> "resolved", value |-> value, reason |-> ""] ELSE p

\* reject(reason) of a Promise: the first settlement wins.
reject(p, reason) ==
  IF p.st = "pending" THEN [st |-> "rejected", value |-> NoToken, reason |-> reason] ELSE p

Settled(f) == promise[f].st \in {"resolved", "rejected"}

\* ----------------------------------------------------------------- timers
TimeoutTimer(f) == [kind |-> "timeout", flow |-> f, delay |-> AuthTimeoutMs]
GraceTimer(f) == [kind |-> "grace", flow |-> f, delay |-> GraceDelayMs]

\* The state the closures of startAuthFlow act on.
Closure == [timeoutId |-> timeoutId, promise |-> promise, timers |-> timers]

\* clearTimeout(timeoutId) of flow f: cancels the timer unless it has fired.
clearTimeout(st, f) ==
  IF st.timeoutId[f] = "armed"
  THEN [st EXCEPT !.timeoutId[f] = "cleared",
                  !.timers = SelectSeq(@, LAMBDA t : t # TimeoutTimer(f))]
  ELSE st

\* A cleanupAndResolve that leaves the timer running.
cleanupAndResolveKeepTimer(st, f, value) ==
  [st EXCEPT !.promise[f] = resolve(@, value)]

\* cleanupAndResolve: `if (timeoutId) clearTimeout(timeoutId); resolve(value)`.
cleanupAndResolve(st, f, value) ==
  LET cleared == IF st.timeoutId[f] # "unset" THEN clearTimeout(st, f) ELSE st IN
  [cleared EXCEPT !.promise[f] = resolve(@, value)]

\* cleanupAndReject: `if (timeoutId) clearTimeout(timeoutId); reject(reason)`.
cleanupAndReject(st, f, reason) ==
  LET cleared == IF st.timeoutId[f] # "unset" THEN clearTimeout(st, f) ELSE st IN
  [cleared EXCEPT !.promise[f] = reject(@, reason)]

\* History: who settled f, given the promises before and after a step.
SettledByAfter(f, after, who) ==
  IF promise[f].st = "pending" /\ after[f].st # "pending"
  THEN [settledBy EXCEPT ![f] = who] ELSE settledBy

\* -------------------------------------------------------------------- Init
Init ==
  /\ server = 0
  /\ nflows = 0
  /\ promise = [f \in Flows |-> NoPromise]
  /\ timeoutId = [f \in Flows |-> "unset"]
  /\ listener = [f \in Flows |-> "none"]
  /\ inflight = <<>>
  /\ nreqs = 0
  /\ timers = <<>>
  /\ httpStatus = 0
  /\ tokenFile \in {NoFile, OldToken}
  /\ now = 0
  /\ settledBy = [f \in Flows |-> "none"]
  /\ ret = NoCall
  /\ getter = NoGetter
  /\ NoProcess

\* ------------------------------------------------------------ startAuthFlow
\* The promise executor: Bun.serve, then setTimeout. Bun.serve throws when the
\* port is taken, by this instance's own open listener or (portTaken) by another
\* process; an executor that throws rejects its promise.
Executor(portTaken) ==
  /\ nflows < MaxFlows
  /\ LET f == nflows + 1 IN
     /\ nflows' = f
     /\ IF portTaken \/ (\E g \in Flows : listener[g] = "open")
        THEN /\ promise' = [promise EXCEPT ![f] = reject(PendingPromise, ListenError)]
             /\ settledBy' = [settledBy EXCEPT ![f] = "throw"]
             /\ UNCHANGED <<server, timeoutId, listener, timers>>
        ELSE /\ promise' = [promise EXCEPT ![f] = PendingPromise]
             /\ server' = f
             /\ listener' = [listener EXCEPT ![f] = "open"]
             /\ timeoutId' = [timeoutId EXCEPT ![f] = "armed"]
             /\ timers' = Append(timers, TimeoutTimer(f))
             /\ UNCHANGED settledBy
  /\ UNCHANGED <<inflight, nreqs, httpStatus, tokenFile, now>>
  /\ UNCHANGED callVars

\* startAuthFlow() called on the instance by any caller.
StartAuthFlow(portTaken) ==
  /\ Executor(portTaken)
  /\ UNCHANGED processVars

\* `if (this.server) { this.server.stop(); this.server = null; }`: the listeners
\* after it (the slot itself becomes 0 in the action).
StoppedListeners ==
  IF server # 0 THEN [listener EXCEPT ![server] = "stopped"] ELSE listener

\* ---------------------------------------------------------------- stop()
\* A stop() that stops the listener and keeps it in the slot.
StopKeepSlot ==
  /\ listener' = StoppedListeners
  /\ UNCHANGED <<server, nflows, promise, timeoutId, inflight, nreqs, timers, httpStatus,
                 tokenFile, now, settledBy>>
  /\ UNCHANGED callVars
  /\ UNCHANGED processVars

Stop ==
  /\ listener' = StoppedListeners
  /\ server' = 0
  /\ UNCHANGED <<nflows, promise, timeoutId, inflight, nreqs, timers, httpStatus,
                 tokenFile, now, settledBy>>
  /\ UNCHANGED callVars
  /\ UNCHANGED processVars

\* ------------------------------------------------------ handleOAuthCallback
\* A check that forgets the request token.
CallbackFailsStatusOnly(url) ==
  url.status # "success"

\* `status !== 'success' || !requestToken`: null and '' are both falsy.
CallbackFails(url) ==
  url.status # "success" \/ url.request_token \in {null, ""}

\* `url.searchParams.get('error_type') || 'OAuth callback failed'`.
CallbackError(url) ==
  IF url.error_type \in {null, ""} THEN GenericCallbackError ELSE url.error_type

\* A tokenData that takes its refresh token from the wrong field.
BuildTokenDataWrongField(response, t) ==
  [access_token  |-> response.access_token,
   refresh_token |-> response.access_token,
   user_id       |-> response.user_id,
   user_name     |-> response.user_name,
   generated_at  |-> toISOString(t)]

\* The tokenData built from the session response at time t.
BuildTokenData(response, t) ==
  [access_token  |-> response.access_token,
   refresh_token |-> response.refresh_token,
   user_id       |-> response.user_id,
   user_name     |-> response.user_name,
   generated_at  |-> toISOString(t)]

\* A saveToken that defaults only a generated_at that is undefined (`??`).
CompleteTokenDataKeepEmpty(tokenData, t) ==
  [tokenData EXCEPT !.generated_at = IF @ = UndefinedTime THEN toISOString(t) ELSE @]

\* A saveToken that stamps every record with the current time.
CompleteTokenDataAlwaysNow(tokenData, t) ==
  [tokenData EXCEPT !.generated_at = toISOString(t)]

\* saveToken: the record written, `generated_at || new Date().toISOString()`.
CompleteTokenData(tokenData, t) ==
  [tokenData EXCEPT !.generated_at = IF @ \in {UndefinedTime, EmptyTime} THEN toISOString(t) ELSE @]

\* A catch that rethrows the message as it is.
WrapSessionErrorBare(e) ==
  IF e.isError THEN e.message ELSE UnknownError

\* The catch of handleOAuthCallback: the reason it rethrows for a caught error.
WrapSessionError(e) ==
  SessionFailedPrefix \o (IF e.isError THEN e.message ELSE UnknownError)

\* The error saveToken throws when the write fails: an Error instance.
SaveTokenError == [isError |-> TRUE, message |-> SaveFailedPrefix \o WriteError]

\* ------------------------------------------------------------ fetch handler
\* A request on /zerodha/auth/redirect reaches the listener of flow f. The run
\* goes to the await of generateSession, or, when handleOAuthCallback throws at
\* once, through the catch branch (reject, grace timer) to the 500 response.
CallbackRequest(f, url) ==
  /\ f <= nflows
  /\ listener[f] = "open"
  /\ nreqs < MaxReqs
  /\ nreqs' = nreqs + 1
  /\ IF CallbackFails(url)
     THEN LET st == cleanupAndReject(Closure, f, CallbackError(url)) IN
          /\ promise' = st.promise
          /\ timeoutId' = st.timeoutId
          /\ timers' = Append(st.timers, GraceTimer(f))
          /\ settledBy' = SettledByAfter(f, st.promise, "callback")
          /\ httpStatus' = 500
          /\ UNCHANGED inflight
     ELSE /\ inflight' = Append(inflight, [flow |-> f, url |-> url,
                                           settledAtRecv |-> promise[f].st # "pending"])
          /\ UNCHANGED <<promise, timeoutId, timers, settledBy, httpStatus>>
  /\ UNCHANGED <<server, nflows, listener, tokenFile, now>>
  /\ UNCHANGED callVars
  /\ UNCHANGED processVars

\* generateSession answers the i-th request in flight with a session; the handler
\* builds the record, saves it (the write succeeds iff diskOk) and resolves and
\* answers 200, or, when saveToken throws, goes through both catches, rejects
\* and answers 500. Either way it schedules the grace timer.
SessionSucceeds(i, response, diskOk) ==
  /\ i \in 1..Len(inflight)
  /\ LET f  == inflight[i].flow
         td == BuildTokenData(response, now)
         st == IF diskOk
               THEN cleanupAndResolve(Closure, f, td)
               ELSE cleanupAndReject(Closure, f, WrapSessionError(SaveTokenError))
     IN
     /\ tokenFile' = IF diskOk THEN CompleteTokenData(td, now) ELSE tokenFile
     /\ promise' = st.promise
     /\ timeoutId' = st.timeoutId
     /\ timers' = Append(st.timers, GraceTimer(f))
     /\ settledBy' = SettledByAfter(f, st.promise, "callback")
     /\ httpStatus' = IF diskOk THEN 200 ELSE 500
  /\ inflight' = Remove(inflight, i)
  /\ UNCHANGED <<server, nflows, listener, nreqs, now>>
  /\ UNCHANGED callVars
  /\ UNCHANGED processVars

\* generateSession throws e for the i-th request in flight: the handler rejects
\* with the wrapped reason, schedules the grace timer and answers 500.
SessionFails(i, e) ==
  /\ i \in 1..Len(inflight)
  /\ LET f  == inflight[i].flow
         st == cleanupAndReject(Closure, f, WrapSessionError(e))
     IN
     /\ promise' = st.promise
     /\ timeoutId' = st.timeoutId
     /\ timers' = Append(st.timers, GraceTimer(f))
     /\ settledBy' = SettledByAfter(f, st.promise, "callback")
  /\ httpStatus' = 500
  /\ inflight' = Remove(inflight, i)
  /\ UNCHANGED <<server, nflows, listener, nreqs, tokenFile, now>>
  /\ UNCHANGED callVars
  /\ UNCHANGED processVars

\* A handler that takes a request on another path for a failed callback: it
\* rejects the flow and answers 500.
OtherRequestAsCallback(f) ==
  /\ f <= nflows
  /\ listener[f] = "open"
  /\ LET st == cleanupAndReject(Closure, f, GenericCallbackError) IN
     /\ promise' = st.promise
     /\ timeoutId' = st.timeoutId
     /\ timers' = st.timers
     /\ settledBy' = SettledByAfter(f, st.promise, "callback")
  /\ httpStatus' = 500
  /\ UNCHANGED <<server, nflows, listener, inflight, nreqs, tokenFile, now>>
  /\ UNCHANGED callVars
  /\ UNCHANGED processVars

\* A request on any path other than /zerodha/auth/redirect reaches the listener
\* of flow f: the handler skips the callback branch and returns the 'waiting'
\* Response, whose status is the default 200.
OtherRequest(f) ==
  /\ f <= nflows
  /\ listener[f] = "open"
  /\ httpStatus' = 200
  /\ UNCHANGED <<server, nflows, promise, timeoutId, listener, inflight, nreqs, timers,
                 tokenFile, now, settledBy>>
  /\ UNCHANGED callVars
  /\ UNCHANGED processVars

\* ------------------------------------------------------------ timer firing
\* The i-th armed timer can fire now: no timer created before it with a delay no
\* longer than its own is still armed (that one is due earlier). A timer with a
\* longer delay created earlier may be due before or after it, as the time
\* between the two creations is not fixed.
CanFire(i) ==
  /\ i \in 1..Len(timers)
  /\ \A j \in 1..(i - 1) : timers[j].delay > timers[i].delay

\* A timeout handler that rejects and leaves the listener to a later shutdown.
TimeoutFireKeepListener(f) ==
  /\ \E i \in 1..Len(timers) : timers[i] = TimeoutTimer(f) /\ CanFire(i)
  /\ LET st == cleanupAndReject(
                 [Closure EXCEPT !.timeoutId[f] = "fired",
                                 !.timers = SelectSeq(@, LAMBDA t : t # TimeoutTimer(f))],
                 f, TimeoutReason) IN
     /\ promise' = st.promise
     /\ timeoutId' = st.timeoutId
     /\ timers' = st.timers
     /\ settledBy' = SettledByAfter(f, st.promise, "timeout")
  /\ UNCHANGED <<server, listener, nflows, inflight, nreqs, httpStatus, tokenFile, now>>
  /\ UNCHANGED callVars
  /\ UNCHANGED processVars

\* A timeout handler that stops the listener and forgets to reject.
TimeoutFireNoReject(f) ==
  /\ \E i \in 1..Len(timers) : timers[i] = TimeoutTimer(f) /\ CanFire(i)
  /\ timeoutId' = [timeoutId EXCEPT ![f] = "fired"]
  /\ timers' = SelectSeq(timers, LAMBDA t : t # TimeoutTimer(f))
  /\ listener' = StoppedListeners
  /\ server' = 0
  /\ UNCHANGED <<promise, settledBy, nflows, inflight, nreqs, httpStatus, tokenFile, now>>
  /\ UNCHANGED callVars
  /\ UNCHANGED processVars

\* The 5-minute timer of flow f fires: stop the listener in the slot, then
\* cleanupAndReject (whose clearTimeout finds the timer fired already).
TimeoutFire(f) ==
  /\ \E i \in 1..Len(timers) : timers[i] = TimeoutTimer(f) /\ CanFire(i)
  /\ LET st == cleanupAndReject(
                 [Closure EXCEPT !.timeoutId[f] = "fired",
                                 !.timers = SelectSeq(@, LAMBDA t : t # TimeoutTimer(f))],
                 f, TimeoutReason) IN
     /\ promise' = st.promise
     /\ timeoutId' = st.timeoutId
     /\ timers' = st.timers
     /\ settledBy' = SettledByAfter(f, st.promise, "timeout")
  /\ listener' = StoppedListeners
  /\ server' = 0
  /\ UNCHANGED <<nflows, inflight, nreqs, httpStatus, tokenFile, now>>
  /\ UNCHANGED callVars
  /\ UNCHANGED processVars

\* A grace timer that fires and leaves the listener running.
GraceFireNoStop(i) ==
  /\ CanFire(i)
  /\ timers[i].kind = "grace"
  /\ timers' = Remove(timers, i)
  /\ UNCHANGED <<server, listener, nflows, promise, timeoutId, inflight, nreqs,
                 httpStatus, tokenFile, now, settledBy>>
  /\ UNCHANGED callVars
  /\ UNCHANGED processVars

\* The i-th armed timer, a 1-second timer scheduled after a callback, fires:
\* stop the listener in the slot.
GraceFire(i) ==
  /\ CanFire(i)
  /\ timers[i].kind = "grace"
  /\ timers' = Remove(timers, i)
  /\ listener' = StoppedListeners
  /\ server' = 0
  /\ UNCHANGED <<nflows, promise, timeoutId, inflight, nreqs, httpStatus, tokenFile,
                 now, settledBy>>
  /\ UNCHANGED callVars
  /\ UNCHANGED processVars

\* The wall clock advances.
Tick ==
  /\ now < MaxTime
  /\ now' = now + 1
  /\ UNCHANGED <<server, nflows, promise, timeoutId, listener, inflight, nreqs, timers,
                 httpStatus, tokenFile, settledBy>>
  /\ UNCHANGED callVars
  /\ UNCHANGED processVars

Next ==
  \/ \E portTaken \in BOOLEAN : StartAuthFlow(portTaken)
  \/ \E f \in Flows, url \in CallbackUrls : CallbackRequest(f, url)
  \/ \E f \in Flows : OtherRequest(f)
  \/ \E i \in 1..MaxReqs, response \in SessionResponses, diskOk \in BOOLEAN :
       SessionSucceeds(i, response, diskOk)
  \/ \E i \in 1..MaxReqs, e \in SessionErrors : SessionFails(i, e)
  \/ \E f \in Flows : TimeoutFire(f)
  \/ \E i \in 1..MaxTimers : GraceFire(i)
  \/ Stop
  \/ Tick

Spec == Init /\ [][Next]_vars

\* Timers that are armed fire: setTimeout callbacks run once their delay is over.
FairSpec ==
  /\ Spec
  /\ \A f \in Flows : WF_vars(TimeoutFire(f))
  /\ \A i \in 1..MaxTimers : WF_vars(GraceFire(i))

\* ------------------------------------------------------------ TokenManager
\* The token file as the TokenManager instances see it: the one of the MCP
\* server and the one of the auth script work on the same access_token.json.
\* A JSON object in the file is the record of its members; the other contents a
\* file can have are the values below.

MaxLate == 2       \* instants the clock can reach after each instant of interest

HourMs     == 3600000   \* 1000 * 60 * 60
FreshHours == 5         \* diffHours < 5

\* The freshness window in milliseconds.
FreshMs == FreshHours * HourMs

\* The instants (milliseconds) the clock of this part visits: the first ones,
\* and the ones around the end of the freshness window of a record generated
\* at one of the first.
Instants == (0..MaxLate) \cup ((FreshMs - 1)..(FreshMs + MaxLate))

\* The instants the expires_at of a record can name.
ExpiryInstants == {1, FreshMs + 1}

\* A timestamp text that Date cannot parse (new Date(text) is an Invalid Date).
GarbageTime == [unparsable |-> TRUE]

\* new Date(text) is a valid date; then its getTime() is the instant of the text.
DateParses(text) == "iso" \in DOMAIN text
getTime(text) == text.iso

\* A file that exists and cannot be read, an empty file, a file cut short in
\* the middle of a write, and a file that holds the JSON text null.
UnreadableFile == [unreadable |-> TRUE]
EmptyFile      == [text |-> ""]
TruncatedFile  == [text |-> "{ \"access_token\": \"to"]
NullJsonFile   == [text |-> "null"]

ReadError    == "EACCES: permission denied"
SyntaxError  == "Unexpected end of JSON input"
TypeError    == "null is not an object"
InvalidStructure == "Invalid token data structure"
ClearFailedPrefix == "Failed to clear token: "
UnlinkError  == "EPERM: operation not permitted"

\* The outcome of a call: a value returned or an error thrown.
Return(v) == [threw |-> FALSE, value |-> v]
Throw(message) == [threw |-> TRUE, value |-> message]
\* What a method of type void returns.
Void == [void |-> TRUE]

StringFields == {"access_token", "refresh_token", "user_id", "user_name"}
TimeFields   == {"generated_at", "expires_at"}

\* JSON.stringify of a TokenData: members whose value is undefined are left out.
JSONstringify(tokenData) ==
  [k \in {j \in DOMAIN tokenData : ~(j \in TimeFields /\ tokenData[j] = UndefinedTime)}
     |-> tokenData[k]]

\* `!tokenData.field` is false: the member is there and is not the empty string.
TruthyString(tokenData, k) == k \in DOMAIN tokenData /\ tokenData[k] # ""
TruthyTime(tokenData, k) ==
  k \in DOMAIN tokenData /\ tokenData[k] \notin {UndefinedTime, EmptyTime}

\* The arguments saveToken is called with.
TokenInputs ==
  { [access_token |-> "tokA", refresh_token |-> "refA", user_id |-> "AB1234",
     user_name |-> "alice", generated_at |-> g, expires_at |-> e] :
       g \in {UndefinedTime, toISOString(0)},
       e \in {UndefinedTime, EmptyTime, GarbageTime} \cup {toISOString(t) : t \in ExpiryInstants} }
  \cup
  { [access_token |-> "tokB", user_id |-> "CD5678", generated_at |-> toISOString(1)],
    [access_token |-> "tokB", user_id |-> "CD5678", generated_at |-> GarbageTime],
    [access_token |-> "",     user_id |-> "CD5678", generated_at |-> toISOString(0)],
    [access_token |-> "tokB", user_id |-> "",       generated_at |-> EmptyTime] }

\* The body of the try of loadToken: what it returns or throws for a file.
loadTokenTry(file) ==
  IF file = NoFile THEN Return(NoToken)
  ELSE IF file = UnreadableFile THEN Throw(ReadError)
  ELSE IF file \in {EmptyFile, TruncatedFile} THEN Throw(SyntaxError)
  ELSE IF file = NullJsonFile THEN Throw(TypeError)
  ELSE IF ~TruthyString(file, "access_token") \/ ~TruthyString(file, "user_id")
            \/ ~TruthyTime(file, "generated_at")
       THEN Throw(InvalidStructure)
  ELSE Return(file)

\* A loadToken that lets the errors of its try escape.
loadTokenNoCatch(file) == loadTokenTry(file)

\* loadToken: the catch turns every error into null.
loadToken(file) ==
  IF loadTokenTry(file).threw THEN Return(NoToken) ELSE loadTokenTry(file)

\* A validateTokenExpiry whose two comparisons accept the boundary.
validateTokenExpiryInclusive(tokenData, n) ==
  IF TruthyTime(tokenData, "expires_at")
  THEN DateParses(tokenData.expires_at) /\ n <= getTime(tokenData.expires_at)
  ELSE /\ DateParses(tokenData.generated_at)
       /\ (n - getTime(tokenData.generated_at)) <= FreshHours * HourMs

\* A validateTokenExpiry that looks at generated_at before expires_at.
validateTokenExpiryGeneratedFirst(tokenData, n) ==
  IF DateParses(tokenData.generated_at)
  THEN (n - getTime(tokenData.generated_at)) < FreshHours * HourMs
  ELSE /\ TruthyTime(tokenData, "expires_at")
       /\ DateParses(tokenData.expires_at)
       /\ n < getTime(tokenData.expires_at)

\* validateTokenExpiry at the instant n. A comparison with the time of an
\* Invalid Date (NaN) is false. `(now - generatedAt) / (1000 * 60 * 60) < 5` is
\* stated on the milliseconds.
validateTokenExpiry(tokenData, n) ==
  IF TruthyTime(tokenData, "expires_at")
  THEN DateParses(tokenData.expires_at) /\ n < getTime(tokenData.expires_at)
  ELSE /\ DateParses(tokenData.generated_at)
       /\ (n - getTime(tokenData.generated_at)) < FreshHours * HourMs

\* isTokenValid at the instant n.
isTokenValid(file, n) ==
  LET tokenData == loadToken(file).value IN
  IF tokenData = NoToken THEN FALSE ELSE validateTokenExpiry(tokenData, n)

\* The result of a call: the method, its argument, and what it returned or threw.
Result(op, arg, outcome) ==
  [op |-> op, arg |-> arg, threw |-> outcome.threw, value |-> outcome.value]

\* The state of OAuthServer, which TokenManager leaves alone.
oauthVars == <<server, nflows, promise, timeoutId, listener, inflight, nreqs, timers,
               httpStatus, settledBy>>

TokenInit ==
  /\ server = 0
  /\ nflows = 0
  /\ promise = [f \in Flows |-> NoPromise]
  /\ timeoutId = [f \in Flows |-> "unset"]
  /\ listener = [f \in Flows |-> "none"]
  /\ inflight = <<>>
  /\ nreqs = 0
  /\ timers = <<>>
  /\ httpStatus = 0
  /\ settledBy = [f \in Flows |-> "none"]
  /\ tokenFile \in {NoFile, UnreadableFile, EmptyFile, TruncatedFile, NullJsonFile, OldToken}
  /\ now = 0
  /\ ret = NoCall
  /\ getter = NoGetter
  /\ NoProcess

\* A saveToken that writes its record over the members of the stored one and
\* keeps the members the new record does not have.
SaveTokenMerge(tokenData, diskOk) ==
  /\ IF diskOk
     THEN /\ tokenFile' =
               LET new == JSONstringify(CompleteTokenData(tokenData, now))
                   old == loadToken(tokenFile).value
                   keep == IF old = NoToken THEN {} ELSE DOMAIN old \ DOMAIN new
               IN [k \in DOMAIN new \cup keep |-> IF k \in DOMAIN new THEN new[k] ELSE old[k]]
          /\ ret' = Result("saveToken", tokenData, Return(Void))
     ELSE /\ ret' = Result("saveToken", tokenData, Throw(SaveFailedPrefix \o WriteError))
          /\ UNCHANGED tokenFile
  /\ UNCHANGED <<now, getter>>
  /\ UNCHANGED oauthVars
  /\ UNCHANGED processVars

\* saveToken(tokenData), by either process; the write succeeds iff diskOk.
SaveToken(tokenData, diskOk) ==
  /\ IF diskOk
     THEN /\ tokenFile' = JSONstringify(CompleteTokenData(tokenData, now))
          /\ ret' = Result("saveToken", tokenData, Return(Void))
     ELSE /\ ret' = Result("saveToken", tokenData, Throw(SaveFailedPrefix \o WriteError))
          /\ UNCHANGED tokenFile
  /\ UNCHANGED <<now, getter>>
  /\ UNCHANGED oauthVars
  /\ UNCHANGED processVars

\* loadToken().
LoadToken ==
  /\ getter = NoGetter
  /\ ret' = Result("loadToken", NoToken, loadToken(tokenFile))
  /\ UNCHANGED <<tokenFile, now, getter>>
  /\ UNCHANGED oauthVars
  /\ UNCHANGED processVars

\* isTokenValid().
IsTokenValid ==
  /\ getter = NoGetter
  /\ ret' = Result("isTokenValid", NoToken, Return(isTokenValid(tokenFile, now)))
  /\ UNCHANGED <<tokenFile, now, getter>>
  /\ UNCHANGED oauthVars
  /\ UNCHANGED processVars

\* What getValidToken / getValidTokenData return for absent.
Absent(op) == IF op = "getValidToken" THEN null ELSE NoToken

\* getValidToken() or getValidTokenData() up to the return of its isTokenValid():
\* it returns null at once, or goes on to read the file a second time.
GetValidCheck(op) ==
  /\ getter = NoGetter
  /\ IF isTokenValid(tokenFile, now)
     THEN /\ getter' = op
          /\ UNCHANGED ret
     ELSE /\ ret' = Result(op, NoToken, Return(Absent(op)))
          /\ UNCHANGED getter
  /\ UNCHANGED <<tokenFile, now>>
  /\ UNCHANGED oauthVars
  /\ UNCHANGED processVars

\* The second read of the getter: `tokenData?.access_token || null` for
\* getValidToken, the loaded record for getValidTokenData.
GetValidLoad ==
  /\ getter # NoGetter
  /\ LET tokenData == loadToken(tokenFile).value IN
     ret' = Result(getter, NoToken,
                   Return(IF getter = "getValidToken"
                          THEN (IF tokenData = NoToken \/ tokenData.access_token = ""
                                THEN null ELSE tokenData.access_token)
                          ELSE tokenData))
  /\ getter' = NoGetter
  /\ UNCHANGED <<tokenFile, now>>
  /\ UNCHANGED oauthVars
  /\ UNCHANGED processVars

\* A clearToken that unlinks without looking whether the file exists.
ClearTokenNoExistsCheck(unlinkOk) ==
  /\ IF tokenFile # NoFile /\ unlinkOk
     THEN /\ tokenFile' = NoFile
          /\ ret' = Result("clearToken", NoToken, Return(Void))
     ELSE /\ ret' = Result("clearToken", NoToken, Throw(ClearFailedPrefix \o UnlinkError))
          /\ UNCHANGED tokenFile
  /\ UNCHANGED <<now, getter>>
  /\ UNCHANGED oauthVars
  /\ UNCHANGED processVars

\* clearToken(), by either process; unlinkSync succeeds iff unlinkOk.
ClearToken(unlinkOk) ==
  /\ IF tokenFile = NoFile
     THEN /\ ret' = Result("clearToken", NoToken, Return(Void))
          /\ UNCHANGED tokenFile
     ELSE IF unlinkOk
     THEN /\ tokenFile' = NoFile
          /\ ret' = Result("clearToken", NoToken, Return(Void))
     ELSE /\ ret' = Result("clearToken", NoToken, Throw(ClearFailedPrefix \o UnlinkError))
          /\ UNCHANGED tokenFile
  /\ UNCHANGED <<now, getter>>
  /\ UNCHANGED oauthVars
  /\ UNCHANGED processVars

\* The clock moves on to a later instant.
ClockAdvance(t) ==
  /\ t \in Instants
  /\ t > now
  /\ now' = t
  /\ UNCHANGED <<tokenFile, ret, getter>>
  /\ UNCHANGED oauthVars
  /\ UNCHANGED processVars

TokenNext ==
  \/ \E tokenData \in TokenInputs, diskOk \in BOOLEAN : SaveToken(tokenData, diskOk)
  \/ LoadToken
  \/ IsTokenValid
  \/ \E op \in {"getValidToken", "getValidTokenData"} : GetValidCheck(op)
  \/ GetValidLoad
  \/ \E unlinkOk \in BOOLEAN : ClearToken(unlinkOk)
  \/ \E t \in Instants : ClockAdvance(t)

TokenSpec == TokenInit /\ [][TokenNext]_vars

\* -------------------------------------------------------------- KiteClient
\* The KiteClient of the MCP server process and the CallTool handler of
\* KiteMCPServer, over the token file that the auth script rewrites.

MaxCalls == 1      \* brokerage API calls awaited at the same time

NotAuthenticated == "Not authenticated. Please run authentication first."
McpNotAuthenticated == "Not authenticated with Kite API. Please run authentication first."
ToolFailedPrefix == "Tool execution failed: "

\* The API methods of KiteClient.
Methods ==
  {"getProfile", "getPositions", "getHoldings", "getOrders", "getOrderHistory",
   "getInstruments", "getLTP", "getOHLC", "getQuote", "placeOrder", "modifyOrder",
   "cancelOrder", "getMargins"}

\* ALL_TOOLS by name, and the KiteClient method the execute of each calls.
ToolMethod ==
  [get_profile |-> "getProfile", get_positions |-> "getPositions",
   get_holdings |-> "getHoldings", get_orders |-> "getOrders",
   place_order |-> "placeOrder", cancel_order |-> "cancelOrder",
   get_ltp |-> "getLTP", get_quote |-> "getQuote",
   get_instruments |-> "getInstruments", get_margins |-> "getMargins",
   get_auth_status |-> "getAuthenticationStatus"]
ToolNames == DOMAIN ToolMethod

\* Names a CallTool request can carry that no tool has.
UnknownTools == {"modify_order", "get_order_history"}

\* What a brokerage call can throw: an API error object with a status and a
\* message, an object with neither, or a value that is no object.
ApiErrors ==
  { [isObject |-> TRUE,  status |-> 403, message |-> "Incorrect api_key or access_token.", text |-> ""],
    [isObject |-> TRUE,  status |-> 500, message |-> "Gateway timeout", text |-> ""],
    [isObject |-> TRUE,  status |-> 0,   message |-> "", text |-> "[object Object]"],
    [isObject |-> FALSE, status |-> 0,   message |-> "", text |-> "ECONNRESET"] }

\* getValidToken() as one run: the credential of the stored record when
\* isTokenValid(), else null.
getValidToken(file, n) ==
  IF ~isTokenValid(file, n) \/ loadToken(file).value = NoToken
        \/ loadToken(file).value.access_token = ""
  THEN null
  ELSE loadToken(file).value.access_token

\* An isReady that looks at the flag alone.
isReadyFlagOnly == isAuthenticated

\* KiteClient.isReady().
isReady == isAuthenticated /\ isTokenValid(tokenFile, now)

\* handleApiError: the message of the Error it returns for operation.
ApiErrorMessage(error, operation) ==
  IF error.isObject /\ error.status = 403
  THEN "Authentication failed during " \o operation \o ". Token may be expired."
  ELSE IF error.isObject /\ error.message # ""
  THEN operation \o " failed: " \o error.message
  ELSE operation \o " failed: " \o error.text

\* handleApiError: the flag after it.
FlagAfterError(error) ==
  IF error.isObject /\ error.status = 403 THEN FALSE ELSE isAuthenticated

\* The reply of a method or tool call that returned, and of one that threw.
Returned(invoked, value) ==
  [kind |-> "returned", code |-> "", invoked |-> invoked, message |-> "", content |-> value]
Thrown(kind, code, invoked, message) ==
  [kind |-> kind, code |-> code, invoked |-> invoked, message |-> message,
   content |-> [none |-> TRUE]]

\* What a brokerage call answers.
ApiResult == [ok |-> TRUE]

\* getAuthenticationStatus(): authenticated, user and tokenExpiry.
getAuthenticationStatus ==
  LET tokenData == IF isTokenValid(tokenFile, now) THEN loadToken(tokenFile).value ELSE NoToken
  IN IF tokenData = NoToken
     THEN [authenticated |-> isReady]
     ELSE [authenticated |-> isReady,
           user |-> IF "user_name" \in DOMAIN tokenData /\ tokenData.user_name # ""
                    THEN tokenData.user_name ELSE tokenData.user_id,
           tokenExpiry |-> tokenData.generated_at]

\* The instants the server process is observed at: construction, a moment
\* later, and the two instants around the expiry of a record generated at 1.
ClientInstants == {0, 1, FreshMs, FreshMs + 1}

ClientInit ==
  /\ server = 0
  /\ nflows = 0
  /\ promise = [f \in Flows |-> NoPromise]
  /\ timeoutId = [f \in Flows |-> "unset"]
  /\ listener = [f \in Flows |-> "none"]
  /\ inflight = <<>>
  /\ nreqs = 0
  /\ timers = <<>>
  /\ httpStatus = 0
  /\ settledBy = [f \in Flows |-> "none"]
  /\ tokenFile \in {NoFile, OldToken}
  /\ now = 0
  /\ ret = NoCall
  /\ getter = NoGetter
  /\ accessToken = getValidToken(tokenFile, now)
  /\ isAuthenticated = (getValidToken(tokenFile, now) \notin {null, ""})
  /\ apiCalls = <<>>
  /\ reply = NoReply
  /\ entry = "none"

\* An API method that runs initializeAuthentication again when the flag is down.
ApiCallReinit(method) ==
  /\ LET token == getValidToken(tokenFile, now) IN
     IF token \notin {null, ""}
     THEN /\ Len(apiCalls) < MaxCalls
          /\ isAuthenticated' = TRUE
          /\ accessToken' = token
          /\ apiCalls' = Append(apiCalls, [method |-> method, via |-> "client"])
          /\ UNCHANGED reply
     ELSE /\ reply' = Thrown("Error", "", FALSE, NotAuthenticated)
          /\ UNCHANGED <<isAuthenticated, accessToken, apiCalls>>
  /\ UNCHANGED <<tokenFile, now, entry>>
  /\ UNCHANGED <<oauthVars, callVars>>

\* A KiteClient API method up to its await: ensureAuthenticated() throws, or
\* the brokerage API is invoked.
ApiCall(method) ==
  /\ IF isReady
     THEN /\ Len(apiCalls) < MaxCalls
          /\ apiCalls' = Append(apiCalls, [method |-> method, via |-> "client"])
          /\ UNCHANGED reply
     ELSE /\ reply' = Thrown("Error", "", FALSE, NotAuthenticated)
          /\ UNCHANGED apiCalls
  /\ UNCHANGED <<isAuthenticated, accessToken, tokenFile, now, entry>>
  /\ UNCHANGED <<oauthVars, callVars>>

\* The i-th brokerage call answers: the method returns the answer, and the
\* CallTool handler, when the call is its tool's, returns it as content.
ApiReturns(i) ==
  /\ i \in 1..Len(apiCalls)
  /\ reply' = Returned(TRUE, ApiResult)
  /\ apiCalls' = Remove(apiCalls, i)
  /\ UNCHANGED <<isAuthenticated, accessToken, tokenFile, now, entry>>
  /\ UNCHANGED <<oauthVars, callVars>>

\* The i-th brokerage call throws: the method throws handleApiError's Error, and
\* the CallTool handler, when the call is its tool's, wraps it in an McpError.
ApiFails(i, error) ==
  /\ i \in 1..Len(apiCalls)
  /\ isAuthenticated' = FlagAfterError(error)
  /\ reply' = IF apiCalls[i].via = "mcp"
              THEN Thrown("McpError", "InternalError", TRUE,
                          ToolFailedPrefix \o ApiErrorMessage(error, apiCalls[i].method))
              ELSE Thrown("Error", "", TRUE, ApiErrorMessage(error, apiCalls[i].method))
  /\ apiCalls' = Remove(apiCalls, i)
  /\ UNCHANGED <<accessToken, tokenFile, now, entry>>
  /\ UNCHANGED <<oauthVars, callVars>>

\* A CallTool handler that leaves the authentication check to the tool.
CallToolNoGate(name) ==
  /\ IF name \notin ToolNames
     THEN /\ reply' = Thrown("McpError", "MethodNotFound", FALSE, "Tool " \o name \o " not found")
          /\ UNCHANGED apiCalls
     ELSE IF name = "get_auth_status"
     THEN /\ reply' = Returned(FALSE, getAuthenticationStatus)
          /\ UNCHANGED apiCalls
     ELSE IF ~isReady
     THEN /\ reply' = Thrown("McpError", "InternalError", FALSE, ToolFailedPrefix \o NotAuthenticated)
          /\ UNCHANGED apiCalls
     ELSE /\ Len(apiCalls) < MaxCalls
          /\ apiCalls' = Append(apiCalls, [method |-> ToolMethod[name], via |-> "mcp"])
          /\ UNCHANGED reply
  /\ UNCHANGED <<isAuthenticated, accessToken, tokenFile, now, entry>>
  /\ UNCHANGED <<oauthVars, callVars>>

\* The CallTool handler up to the await in the tool's execute: the lookup in
\* ALL_TOOLS, the authentication check, then execute, which for get_auth_status
\* returns at once and for the others calls the KiteClient method.
CallTool(name) ==
  /\ IF name \notin ToolNames
     THEN /\ reply' = Thrown("McpError", "MethodNotFound", FALSE, "Tool " \o name \o " not found")
          /\ UNCHANGED apiCalls
     ELSE IF name # "get_auth_status" /\ ~isReady
     THEN /\ reply' = Thrown("McpError", "InternalError", FALSE, McpNotAuthenticated)
          /\ UNCHANGED apiCalls
     ELSE IF name = "get_auth_status"
     THEN /\ reply' = Returned(FALSE, getAuthenticationStatus)
          /\ UNCHANGED apiCalls
     ELSE /\ Len(apiCalls) < MaxCalls
          /\ apiCalls' = Append(apiCalls, [method |-> ToolMethod[name], via |-> "mcp"])
          /\ UNCHANGED reply
  /\ UNCHANGED <<isAuthenticated, accessToken, tokenFile, now, entry>>
  /\ UNCHANGED <<oauthVars, callVars>>

ClientNext ==
  \/ \E method \in Methods : ApiCall(method)
  \/ \E i \in 1..MaxCalls : ApiReturns(i)
  \/ \E i \in 1..MaxCalls, error \in ApiErrors : ApiFails(i, error)
  \/ \E name \in ToolNames \cup UnknownTools : CallTool(name)
  \/ \E response \in SessionResponses : SaveToken(BuildTokenData(response, now), TRUE)
  \/ ClearToken(TRUE)
  \/ \E t \in ClientInstants : ClockAdvance(t)

ClientSpec == ClientInit /\ [][ClientNext]_vars

\* --------------------------------------------------------------- auth script
\* The auth entry point: authenticate() with its own TokenManager and
\* OAuthServer, the requests and timers of the flow it starts, and the exit of
\* the process.

\* The token files a run of the script can find.
AuthFiles ==
  {NoFile, EmptyFile, OldToken}
     \cup { JSONstringify(CompleteTokenData(tokenData, 0)) : tokenData \in TokenInputs }

AuthInit ==
  /\ server = 0
  /\ nflows = 0
  /\ promise = [f \in Flows |-> NoPromise]
  /\ timeoutId = [f \in Flows |-> "unset"]
  /\ listener = [f \in Flows |-> "none"]
  /\ inflight = <<>>
  /\ nreqs = 0
  /\ timers = <<>>
  /\ httpStatus = 0
  /\ settledBy = [f \in Flows |-> "none"]
  /\ tokenFile \in AuthFiles
  /\ now = 0
  /\ ret = NoCall
  /\ getter = NoGetter
  /\ NoProcess

\* An authenticate() that starts the flow without looking at the store.
AuthenticateAlways(portTaken) ==
  /\ entry = "none"
  /\ Executor(portTaken)
  /\ entry' = "waiting"
  /\ UNCHANGED mcpVars

\* authenticate() up to its return or its await: with a valid stored token it
\* prints and returns, else it calls startAuthFlow() and waits.
Authenticate(portTaken) ==
  /\ entry = "none"
  /\ IF isTokenValid(tokenFile, now)
     THEN /\ entry' = "authenticated"
          /\ UNCHANGED <<tokenFile, now>>
          /\ UNCHANGED oauthVars
          /\ UNCHANGED callVars
     ELSE /\ Executor(portTaken)
          /\ entry' = "waiting"
  /\ UNCHANGED mcpVars

\* The event loop of the script takes the next request or timer: the process
\* is alive and authenticate() is not about to resume.
Running ==
  /\ entry \in {"waiting", "done"}
  /\ ~(entry = "waiting" /\ Settled(1))

\* process.exit(code): the listener, the timers and the requests being handled
\* go with the process.
Exit(code) ==
  /\ entry' = code
  /\ listener' = [f \in Flows |-> IF listener[f] = "open" THEN "stopped" ELSE listener[f]]
  /\ timers' = <<>>
  /\ inflight' = <<>>
  /\ UNCHANGED <<server, nflows, promise, timeoutId, nreqs, httpStatus, tokenFile, now,
                 settledBy>>
  /\ UNCHANGED callVars
  /\ UNCHANGED mcpVars

\* authenticate() resumes after the await: it prints the welcome, or its catch
\* calls process.exit(1).
AuthResumes ==
  /\ entry = "waiting"
  /\ Settled(1)
  /\ IF promise[1].st = "resolved"
     THEN /\ entry' = "done"
          /\ UNCHANGED <<tokenFile, now>>
          /\ UNCHANGED oauthVars
          /\ UNCHANGED callVars
          /\ UNCHANGED mcpVars
     ELSE Exit("exit1")

\* The SIGINT / SIGTERM handlers.
Signal ==
  /\ Running
  /\ Exit("exit0")

AuthNext ==
  \/ \E portTaken \in BOOLEAN : Authenticate(portTaken)
  \/ AuthResumes
  \/ Signal
  \/ Running /\ \E f \in Flows, url \in CallbackUrls : CallbackRequest(f, url)
  \/ Running /\ \E f \in Flows : OtherRequest(f)
  \/ Running /\ \E i \in 1..MaxReqs, response \in SessionResponses, diskOk \in BOOLEAN :
                  SessionSucceeds(i, response, diskOk)
  \/ Running /\ \E i \in 1..MaxReqs, e \in SessionErrors : SessionFails(i, e)
  \/ Running /\ \E f \in Flows : TimeoutFire(f)
  \/ Running /\ \E i \in 1..MaxTimers : GraceFire(i)
  \/ Tick

AuthSpec == AuthInit /\ [][AuthNext]_vars

\* ------------------------------------------------------------------ claims
\* The records the session exchange of the model can lead to in the token file.
SessionRecords ==
  { [access_token |-> response.access_token, refresh_token |-> response.refresh_token,
     user_id |-> response.user_id, user_name |-> response.user_name,
     generated_at |-> [iso |-> t]] : response \in SessionResponses, t \in 0..MaxTime + 1 }

\* The record of a session response stamped at time t.
ExpectedRecord(response, t) ==
  [access_token |-> response.access_token, refresh_token |-> response.refresh_token,
   user_id |-> response.user_id, user_name |-> response.user_name,
   generated_at |-> [iso |-> t]]

\* A failing callback: status is not 'success', or request_token is absent or empty.
FailingQuery(url) ==
  url.status # "success" \/ url.request_token = null \/ url.request_token = ""

\* C1: the promise of a flow settles at most once: once it is resolved or
\* rejected, no step (a further callback, a callback in flight completing, the
\* timeout timer, stop()) changes its outcome, its record or its reason.
C1_SettlesOnce ==
  [][\A f \in Flows :
       promise[f].st \in {"resolved", "rejected"} => promise'[f] = promise[f]]_vars

\* The only flow started was rejected by its timeout, and the token file holds
\* a session record: a callback in flight at the timeout has since run to its
\* cleanupAndResolve, without effect on the promise.
C1_Witness ==
  /\ nflows = 1
  /\ settledBy[1] = "timeout"
  /\ promise[1] = [st |-> "rejected", value |-> NoToken, reason |-> TimeoutReason]
  /\ tokenFile \in SessionRecords

\* C2: a callback handled after the flow has settled is a no-op: it starts no
\* session exchange and schedules no further shutdown, and the run of its
\* handler writes no token, so the token file keeps the record of the flow.
C2_LateCallbackIsNoOp ==
  [][/\ \A f \in Flows, url \in CallbackUrls :
          (CallbackRequest(f, url) /\ promise[f].st # "pending") =>
             (inflight' = inflight /\ timers' = timers /\ tokenFile' = tokenFile)
     /\ \A i \in 1..MaxReqs, response \in SessionResponses, diskOk \in BOOLEAN :
          (SessionSucceeds(i, response, diskOk) /\ inflight[i].settledAtRecv) =>
             (timers' = timers /\ tokenFile' = tokenFile)]_vars

\* C3: a timer created by one flow (its timeout timer or a grace timer of one of
\* its callbacks) never stops the listener opened by a later startAuthFlow.
C3_TimerStopsOwnListenerOnly ==
  [][/\ \A f \in Flows : TimeoutFire(f) => (server = 0 \/ server <= f)
     /\ \A i \in 1..MaxTimers : GraceFire(i) => (server = 0 \/ server <= timers[i].flow)]_vars

\* C4: once a callback has settled a flow, its timeout timer is cancelled; a
\* cancelled timer stays cancelled, so the timeout handler never runs (stops a
\* listener, rejects) for a flow a callback settled.
C4_TimeoutCancelledOnCallbackSettle ==
  \A f \in Flows : settledBy[f] = "callback" => timeoutId[f] = "cleared"

\* A flow a callback resolved, and one a callback rejected.
C4_Witness ==
  /\ \E f \in Flows : settledBy[f] = "callback" /\ promise[f].st = "resolved"
  /\ \E f \in Flows : settledBy[f] = "callback" /\ promise[f].st = "rejected"

\* C5: the timeout timer of a flow fires only while the flow is pending; the run
\* of its handler rejects the flow with the fixed timeout reason and leaves the
\* slot empty and the flow's listener stopped, with no grace timer scheduled.
C5_TimeoutRejectsAfterStop ==
  [][\A f \in Flows :
       TimeoutFire(f) =>
         /\ promise[f].st = "pending"
         /\ promise'[f] = [st |-> "rejected", value |-> NoToken, reason |-> TimeoutReason]
         /\ server' = 0
         /\ listener'[f] = "stopped"
         /\ \A i \in 1..Len(timers') : \E j \in 1..Len(timers) : timers'[i] = timers[j]]_vars

\* The timeout of a flow has fired while a callback of the flow awaited its
\* session exchange.
C5_Witness ==
  \E f \in Flows :
    /\ timeoutId[f] = "fired"
    /\ settledBy[f] = "timeout"
    /\ \E i \in 1..Len(inflight) : inflight[i].flow = f

\* What C6 promises of the run that handles the response of a session exchange.
C6_Outcome(f, response) ==
  LET rec == ExpectedRecord(response, now) IN
  /\ promise'[f] = [st |-> "resolved", value |-> rec, reason |-> ""]
  /\ tokenFile' = rec
  /\ httpStatus' \in 200..299

\* C6 as stated: a flow pending when it receives a success callback whose session
\* exchange succeeds resolves with the record of the exchange response, stamped
\* with the current time; the record is in the token file; the response is 2xx.
C6_AsStated ==
  [][\A i \in 1..MaxReqs, response \in SessionResponses, diskOk \in BOOLEAN :
       (SessionSucceeds(i, response, diskOk) /\ ~inflight[i].settledAtRecv)
          => C6_Outcome(inflight[i].flow, response)]_vars

\* C6, amended: the same, when moreover the write of the token file succeeds and
\* the flow is still pending when the exchange returns.
C6_SuccessResolvesAndPersists ==
  [][\A i \in 1..MaxReqs, response \in SessionResponses :
       (SessionSucceeds(i, response, TRUE) /\ ~inflight[i].settledAtRecv
          /\ promise[inflight[i].flow].st = "pending")
          => C6_Outcome(inflight[i].flow, response)]_vars

\* A success callback has resolved its flow at a time after the start of the
\* run, and its record is the one in the token file.
C6_Witness ==
  \E f \in Flows, response \in SessionResponses :
    /\ promise[f] = [st |-> "resolved", value |-> ExpectedRecord(response, 1), reason |-> ""]
    /\ tokenFile = promise[f].value
    /\ httpStatus = 200

\* What C7 promises of the handling of a failing callback, for the reason given.
C7_Outcome(f, reason) ==
  /\ inflight' = inflight
  /\ tokenFile' = tokenFile
  /\ promise'[f] = [st |-> "rejected", value |-> NoToken, reason |-> reason]
  /\ httpStatus' \notin 200..299

\* C7 as stated: a failing callback on a pending flow invokes no exchange, writes
\* no token, rejects with the error_type value, or with the generic reason when
\* error_type is absent, and answers non-2xx.
C7_AsStated ==
  [][\A f \in Flows, url \in CallbackUrls :
       (CallbackRequest(f, url) /\ FailingQuery(url) /\ promise[f].st = "pending") =>
          C7_Outcome(f, IF url.error_type = null
                        THEN "OAuth callback failed" ELSE url.error_type)]_vars

\* C7, amended: the generic reason also when error_type is present and empty.
C7_FailureCallbackRejects ==
  [][\A f \in Flows, url \in CallbackUrls :
       (CallbackRequest(f, url) /\ FailingQuery(url) /\ promise[f].st = "pending") =>
          C7_Outcome(f, IF url.error_type = null \/ url.error_type = ""
                        THEN "OAuth callback failed" ELSE url.error_type)]_vars

\* A failing callback that named its error has rejected a flow with it.
C7_Witness ==
  \E f \in Flows :
    /\ promise[f] = [st |-> "rejected", value |-> NoToken, reason |-> "access_denied"]
    /\ settledBy[f] = "callback"
    /\ httpStatus = 500

\* What C8 promises of the run that handles the failure of a session exchange.
C8_Outcome(f, message) ==
  /\ promise'[f] =
       [st |-> "rejected", value |-> NoToken, reason |-> "Session generation failed: " \o message]
  /\ tokenFile' = tokenFile
  /\ httpStatus' = 500

\* C8 as stated: a flow pending when it receives a success callback whose session
\* exchange fails is rejected with 'Session generation failed: ' and the error's
\* message; the callback persists nothing; the response is the failure page.
C8_AsStated ==
  [][\A i \in 1..MaxReqs, e \in SessionErrors :
       (SessionFails(i, e) /\ ~inflight[i].settledAtRecv)
          => C8_Outcome(inflight[i].flow, e.message)]_vars

\* C8, amended: the same when the flow is still pending as the exchange fails;
\* the message is 'Unknown error' when the value thrown is no Error instance.
C8_ExchangeFailureRejects ==
  [][\A i \in 1..MaxReqs, e \in SessionErrors :
       (SessionFails(i, e) /\ ~inflight[i].settledAtRecv
          /\ promise[inflight[i].flow].st = "pending")
          => C8_Outcome(inflight[i].flow,
                        IF e.isError THEN e.message ELSE "Unknown error")]_vars

\* A failed exchange has rejected a flow with the wrapped message of its Error.
C8_Witness ==
  \E f \in Flows, e \in SessionErrors :
    /\ e.isError
    /\ promise[f] = [st |-> "rejected", value |-> NoToken,
                     reason |-> "Session generation failed: " \o e.message]
    /\ httpStatus = 500

\* C9: every started flow eventually settles, whatever else happens: no callback,
\* an exchange that never returns, stop() while pending, a listener that cannot
\* be opened.
C9_EveryFlowSettles ==
  \A f \in Flows : (promise[f].st # "unstarted") ~> Settled(f)

\* A flow whose callback still awaits its session exchange, settled by its timeout.
C9_Witness ==
  \E f \in Flows :
    /\ settledBy[f] = "timeout"
    /\ \E i \in 1..Len(inflight) : inflight[i].flow = f /\ ~inflight[i].settledAtRecv

\* C10: after a flow settles, its listener is eventually stopped and the slot
\* empty; at once when the timeout settled it.
C10_SettlementLeadsToTeardown ==
  /\ \A f \in Flows : Settled(f) ~> (server = 0 /\ listener[f] # "open")
  /\ [](\A f \in Flows : settledBy[f] = "timeout" => listener[f] # "open")

\* A flow a callback settled, its listener stopped, the slot empty and no timer
\* left armed.
C10_Witness ==
  \E f \in Flows :
    /\ settledBy[f] = "callback"
    /\ listener[f] = "stopped"
    /\ server = 0
    /\ timers = <<>>

\* C11: at most one authentication attempt is pending per OAuthServer instance:
\* no two promises returned by startAuthFlow are unsettled at the same time.
C11_AtMostOnePending ==
  Cardinality({f \in Flows : promise[f].st = "pending"}) <= 1

\* C12: the listener of a flow is never stopped while a callback request it has
\* accepted is still being handled (its handler has not returned its Response).
C12_NoStopWhileHandling ==
  \A i \in 1..Len(inflight) : listener[inflight[i].flow] = "open"

\* C13: a request on a path other than the callback path returns the 'waiting'
\* response (status 200) and leaves everything else as it was: the promises, the
\* timeout timers, the listeners and the slot, the requests in flight, the
\* token file.
C13_OtherPathChangesNothing ==
  [][\A f \in Flows :
       OtherRequest(f) =>
         /\ httpStatus' = 200
         /\ promise' = promise
         /\ timeoutId' = timeoutId
         /\ timers' = timers
         /\ listener' = listener
         /\ server' = server
         /\ inflight' = inflight
         /\ tokenFile' = tokenFile]_vars

\* The latest response is a 200 and the token file was never written, so it is
\* the 'waiting' response (a callback answers 200 only after it saved a token);
\* the flow is pending still, its timer armed and its listener open.
C13_Witness ==
  \E f \in Flows :
    /\ httpStatus = 200
    /\ promise[f].st = "pending"
    /\ timeoutId[f] = "armed"
    /\ listener[f] = "open"
    /\ tokenFile \in {NoFile, OldToken}
    /\ inflight = <<>>

\* C14: stop() leaves the slot empty and no listener of the instance open, and
\* is idempotent: a stop() in the state a stop() leaves changes nothing, as
\* does a stop() when the slot is empty.
C14_StopIdempotent ==
  [][Stop =>
       /\ server' = 0
       /\ \A f \in Flows : listener'[f] # "open"
       /\ StoppedListeners' = listener'
       /\ (server = 0 => listener' = listener)]_vars

\* stop() has stopped the listener of a pending flow: no request was made and
\* the timeout timer is still armed, so nothing else can have stopped it.
C14_Witness ==
  \E f \in Flows :
    /\ nreqs = 0
    /\ listener[f] = "stopped"
    /\ promise[f].st = "pending"
    /\ timeoutId[f] = "armed"
    /\ server = 0

\* The records the token file can hold after a saveToken of the model.
StoredRecords ==
  { JSONstringify(CompleteTokenData(tokenData, t)) : tokenData \in TokenInputs, t \in Instants }

\* A file loadToken returns a record for: a JSON object whose access_token,
\* user_id and generated_at are there and not empty.
Loadable(file) ==
  /\ file \notin {NoFile, UnreadableFile, EmptyFile, TruncatedFile, NullJsonFile}
  /\ "access_token" \in DOMAIN file /\ file.access_token # ""
  /\ "user_id" \in DOMAIN file /\ file.user_id # ""
  /\ "generated_at" \in DOMAIN file /\ file.generated_at # EmptyTime

\* A record with an explicit expires_at: the member is there and not empty.
HasExpiry(file) == "expires_at" \in DOMAIN file /\ file.expires_at # EmptyTime

\* The current time n is strictly before the instant the text names.
StrictlyBefore(n, text) == "iso" \in DOMAIN text /\ n < text.iso

\* Less than 5 hours have passed at n since the instant the text names.
WithinFiveHours(n, text) == "iso" \in DOMAIN text /\ n - text.iso < 5 * 60 * 60 * 1000

\* C15: for a loadable stored record with an explicit expires_at, isTokenValid()
\* is true iff the current time is strictly before expires_at, whatever its
\* generated_at; and a record with an explicit expires_at that is invalid at
\* one time is invalid at every later time.
C15_ExplicitExpiryRule ==
  [][/\ (IsTokenValid /\ Loadable(tokenFile) /\ HasExpiry(tokenFile)) =>
          (~ret'.threw /\ ret'.value = StrictlyBefore(now, tokenFile.expires_at))
     /\ now' # now =>
          \A file \in StoredRecords :
            (Loadable(file) /\ HasExpiry(file) /\ ~isTokenValid(file, now)) =>
               ~isTokenValid(file, now')]_vars

\* isTokenValid() has returned false for a record at the very instant of its
\* expires_at, less than 5 hours after the record was generated.
C15_Witness ==
  /\ ret.op = "isTokenValid"
  /\ ret.value = FALSE
  /\ Loadable(tokenFile) /\ HasExpiry(tokenFile)
  /\ tokenFile.generated_at = [iso |-> 0]
  /\ tokenFile.expires_at = [iso |-> 1]
  /\ now = 1

\* C16: for a loadable stored record with no explicit expires_at, isTokenValid()
\* is true iff now - generated_at is strictly less than 5 hours; with no stored
\* or loadable record it is false.
C16_FreshnessRule ==
  [][IsTokenValid =>
       /\ ~ret'.threw
       /\ (Loadable(tokenFile) /\ ~HasExpiry(tokenFile)) =>
             ret'.value = WithinFiveHours(now, tokenFile.generated_at)
       /\ ~Loadable(tokenFile) => ret'.value = FALSE]_vars

\* isTokenValid() has returned false for a record with no expires_at generated
\* exactly 5 hours before.
C16_Witness ==
  /\ ret.op = "isTokenValid"
  /\ ret.value = FALSE
  /\ Loadable(tokenFile) /\ ~HasExpiry(tokenFile)
  /\ DateParses(tokenFile.generated_at)
  /\ now - getTime(tokenFile.generated_at) = FreshMs

\* C17: a non-null result of getValidToken() / getValidTokenData() is a record,
\* or the credential of the stored record, that satisfies the validity rule at
\* the time it is returned, whatever saveToken, clearToken and the clock do
\* during the call.
C17_GetValidReturnsValid ==
  [][GetValidLoad =>
       \/ ret'.value = Absent(getter)
       \/ /\ getter = "getValidTokenData"
          /\ Loadable(ret'.value)
          /\ IF HasExpiry(ret'.value)
             THEN StrictlyBefore(now', ret'.value.expires_at)
             ELSE WithinFiveHours(now', ret'.value.generated_at)
       \/ /\ getter = "getValidToken"
          /\ Loadable(tokenFile')
          /\ ret'.value = tokenFile'.access_token
          /\ IF HasExpiry(tokenFile')
             THEN StrictlyBefore(now', tokenFile'.expires_at)
             ELSE WithinFiveHours(now', tokenFile'.generated_at)]_vars

\* C18: loadToken() never raises and never modifies the file; it returns null
\* when the file does not exist, cannot be read, is empty or not valid JSON, or
\* lacks a non-empty access_token, user_id or generated_at, and the stored
\* record otherwise.
C18_LoadTokenNeverRaises ==
  [][LoadToken =>
       /\ ~ret'.threw
       /\ tokenFile' = tokenFile
       /\ ret'.value = (IF Loadable(tokenFile) THEN tokenFile ELSE NoToken)]_vars

\* loadToken() has returned null for a file that cannot be read or parsed, and
\* for a stored record whose access_token is empty.
C18_Witness ==
  /\ ret.op = "loadToken"
  /\ ret.value = NoToken
  /\ \/ tokenFile \in {UnreadableFile, EmptyFile, TruncatedFile, NullJsonFile}
     \/ /\ tokenFile \in StoredRecords
        /\ tokenFile.access_token = ""

\* The records a and b are equal in the member k, of text (StringFields) or of
\* time (TimeFields): both lack it, or both have it with the same value.
SameString(a, b, k) ==
  /\ (k \in DOMAIN a) = (k \in DOMAIN b)
  /\ k \in DOMAIN a => a[k] = b[k]
SameTime(a, b, k) ==
  /\ (k \in DOMAIN a /\ a[k] # UndefinedTime) = (k \in DOMAIN b /\ b[k] # UndefinedTime)
  /\ (k \in DOMAIN a /\ a[k] # UndefinedTime) => a[k] = b[k]

\* C19: a loadToken() that follows a saveToken(r), with no write in between,
\* returns a record equal to r in access_token, refresh_token, user_id,
\* user_name, generated_at and expires_at, the timestamps as they were given,
\* for every r whose access_token, user_id and generated_at are not empty.
C19_SaveLoadRoundTrip ==
  [][(/\ LoadToken
      /\ ret.op = "saveToken" /\ ~ret.threw
      /\ ret.arg.access_token # "" /\ ret.arg.user_id # ""
      /\ ret.arg.generated_at \notin {UndefinedTime, EmptyTime}) =>
       /\ ~ret'.threw
       /\ \A k \in {"access_token", "refresh_token", "user_id", "user_name"} :
            SameString(ret'.value, ret.arg, k)
       /\ \A k \in {"generated_at", "expires_at"} : SameTime(ret'.value, ret.arg, k)]_vars

\* loadToken() has returned, at a later time than the one in it, the record a
\* saveToken stored, with the expires_at it was given.
C19_Witness ==
  /\ ret.op = "loadToken"
  /\ ret.value = tokenFile
  /\ Loadable(tokenFile) /\ HasExpiry(tokenFile)
  /\ tokenFile.refresh_token = "refA"
  /\ tokenFile.generated_at = [iso |-> 0]
  /\ tokenFile.expires_at = [iso |-> 1]
  /\ now > 1

\* The store is absent: loadToken() returns null and isTokenValid() false.
StoreAbsent(file, n) ==
  /\ file = NoFile
  /\ loadToken(file) = [threw |-> FALSE, value |-> NoToken]
  /\ ~isTokenValid(file, n)

\* C20 as stated: clearToken() raises no error and leaves the store absent,
\* whether a file exists or not, and however often it is called.
C20_AsStated ==
  [][\A unlinkOk \in BOOLEAN :
       ClearToken(unlinkOk) => (~ret'.threw /\ StoreAbsent(tokenFile', now'))]_vars

\* C20, amended: a clearToken() that returns leaves the store absent; it raises
\* an error exactly when the file exists and cannot be removed, and then leaves
\* the file as it was; so a call when no file exists, such as one that follows
\* a call that returned, raises no error and changes nothing.
C20_ClearIdempotent ==
  [][\A unlinkOk \in BOOLEAN :
       ClearToken(unlinkOk) =>
         /\ ret'.threw = (tokenFile # NoFile /\ ~unlinkOk)
         /\ ~ret'.threw => StoreAbsent(tokenFile', now')
         /\ ret'.threw => tokenFile' = tokenFile
         /\ tokenFile = NoFile => tokenFile' = tokenFile]_vars

\* clearToken() has returned with the store absent, at a time when the record
\* saved before it would still be valid.
C20_Witness ==
  /\ ret.op = "clearToken"
  /\ ~ret.threw
  /\ tokenFile = NoFile
  /\ now > 0
  /\ now < FreshMs

\* The record a saveToken(r) at the instant n leaves in the file, from r alone:
\* the members r has, with the current time for a generated_at that is
\* undefined or empty.
StoredFor(r, n) ==
  LET has == {k \in DOMAIN r : ~(k \in {"generated_at", "expires_at"} /\ r[k] = UndefinedTime)}
  IN [k \in has \cup {"generated_at"} |->
        IF k = "generated_at" /\ r[k] \in {UndefinedTime, EmptyTime} THEN [iso |-> n] ELSE r[k]]

\* C21: a saveToken(r2) replaces the stored record as a whole: the file then
\* holds r2 and nothing of what it held before (no expires_at or refresh_token
\* that r2 lacks), loadToken() returns r2 when r2 is loadable, and validity is
\* decided by r2 alone.
C21_SaveOverwritesWholesale ==
  [][\A r2 \in TokenInputs :
       SaveToken(r2, TRUE) =>
         /\ tokenFile' = StoredFor(r2, now)
         /\ \A k \in {"refresh_token", "user_name"} :
              k \notin DOMAIN r2 => k \notin DOMAIN tokenFile'
         /\ ("expires_at" \notin DOMAIN r2 \/ r2.expires_at = UndefinedTime) =>
              "expires_at" \notin DOMAIN tokenFile'
         /\ Loadable(StoredFor(r2, now)) =>
              loadToken(tokenFile') = [threw |-> FALSE, value |-> StoredFor(r2, now)]
         /\ isTokenValid(tokenFile', now') = isTokenValid(StoredFor(r2, now), now)]_vars

\* A saveToken of a record with neither refresh_token nor expires_at has
\* returned, over whatever was stored before, and the file holds that record
\* and no other member.
C21_Witness ==
  /\ ret.op = "saveToken" /\ ~ret.threw
  /\ "refresh_token" \notin DOMAIN ret.arg
  /\ tokenFile = [access_token |-> "tokB", user_id |-> "CD5678", generated_at |-> [iso |-> 1]]
  /\ now > 1

\* C22: saveToken stores the current time as generated_at when the record given
\* has none or an empty one, and a non-empty generated_at as it is given; a
\* write that cannot complete raises 'Failed to save token: ...' to the caller
\* and stores nothing.
C22_SaveDefaultsTimestamp ==
  [][\A r \in TokenInputs, diskOk \in BOOLEAN :
       SaveToken(r, diskOk) =>
         IF diskOk
         THEN /\ ~ret'.threw
              /\ tokenFile'.generated_at =
                   (IF r.generated_at \in {UndefinedTime, EmptyTime}
                    THEN [iso |-> now] ELSE r.generated_at)
         ELSE /\ ret'.threw
              /\ ret'.value = "Failed to save token: EACCES"
              /\ tokenFile' = tokenFile]_vars

\* A saveToken of a record with an empty generated_at has returned and the file
\* holds the time of the call, which is not the start of the run.
C22_Witness ==
  /\ ret.op = "saveToken" /\ ~ret.threw
  /\ ret.arg.generated_at = EmptyTime
  /\ tokenFile.generated_at = [iso |-> now]
  /\ now > 0

\* C23: a flow that settles as Failed or TimedOut does not write the token file,
\* before or after it settles: no callback of a flow that is rejected once its
\* handler has run changes the file.
C23_RejectedFlowWritesNothing ==
  [][\A i \in 1..MaxReqs, response \in SessionResponses, diskOk \in BOOLEAN :
       (SessionSucceeds(i, response, diskOk) /\ promise'[inflight[i].flow].st = "rejected")
          => tokenFile' = tokenFile]_vars

\* The stored record satisfies the validity rule at n: it is loadable and, with
\* an explicit expires_at, n is before it, else less than 5 hours old.
ValidStored(file, n) ==
  /\ Loadable(file)
  /\ IF HasExpiry(file)
     THEN StrictlyBefore(n, file.expires_at)
     ELSE WithinFiveHours(n, file.generated_at)

\* A step that is no return of a TokenManager method to its caller: the steps
\* of KiteClient and of the CallTool handler are among these.
NoReturn == ret'.op = ret.op /\ ret'.threw = ret.threw

\* The error of a KiteClient method called on a client that is not ready.
ClientRejection ==
  [kind |-> "Error", code |-> "", invoked |-> FALSE,
   message |-> "Not authenticated. Please run authentication first.",
   content |-> [none |-> TRUE]]

\* C24: every KiteClient API method invokes the brokerage API only if, at the
\* time of the call, the client is authenticated and the stored token is valid;
\* otherwise it fails with 'Not authenticated. Please run authentication first.'
\* and the brokerage API is not invoked.
C24_ApiCallsNeedReadyClient ==
  [][\A method \in Methods :
       (NoReturn /\ ApiCall(method)) =>
         IF isAuthenticated /\ ValidStored(tokenFile, now)
         THEN /\ apiCalls' = Append(apiCalls, [method |-> method, via |-> "client"])
              /\ reply' = reply
         ELSE /\ apiCalls' = apiCalls
              /\ reply' = ClientRejection]_vars

\* A method has been rejected on a client whose flag is up and whose stored
\* token has expired, and no brokerage call is under way.
C24_Witness ==
  /\ isAuthenticated
  /\ Loadable(tokenFile) /\ ~ValidStored(tokenFile, now)
  /\ reply = ClientRejection
  /\ apiCalls = <<>>

\* C25: whenever KiteClient.isReady() is true, the access token configured on
\* the brokerage client is the access_token of the stored valid record.
C25_ReadyClientHoldsStoredToken ==
  (isAuthenticated /\ ValidStored(tokenFile, now)) => accessToken = tokenFile.access_token

\* C26: the authenticated flag never goes from false to true after
\* construction: a client constructed without a valid stored token has it down,
\* a status-403 API error puts it down, and while it is down isReady() is false
\* and every API method is rejected without a brokerage call, whatever is saved
\* to the store.
C26_FlagNeverComesBack ==
  /\ (~ValidStored(tokenFile, now) => ~isAuthenticated)
  /\ [][/\ ~isAuthenticated => ~isAuthenticated'
        /\ \A i \in 1..MaxCalls, error \in ApiErrors :
             (NoReturn /\ ApiFails(i, error) /\ error.status = 403) => ~isAuthenticated'
        /\ ~isAuthenticated =>
             /\ ~isReady
             /\ Len(apiCalls') <= Len(apiCalls)
             /\ \A method \in Methods :
                  (NoReturn /\ ApiCall(method)) =>
                     (apiCalls' = apiCalls /\ reply' = ClientRejection)]_vars

\* A client that was constructed with a valid token and lost its flag (a 403)
\* has rejected a method while a valid record is stored.
C26_Witness ==
  /\ ~isAuthenticated
  /\ accessToken # null
  /\ ValidStored(tokenFile, now)
  /\ reply = ClientRejection

\* The McpError of a tool call refused by the authentication check.
ToolRejection ==
  [kind |-> "McpError", code |-> "InternalError", invoked |-> FALSE,
   message |-> "Not authenticated with Kite API. Please run authentication first.",
   content |-> [none |-> TRUE]]

\* C27: a call naming a tool not in ALL_TOOLS fails with MethodNotFound and
\* executes nothing; a call to a tool other than get_auth_status while
\* isReady() is false fails with 'Not authenticated with Kite API...' and the
\* tool is not executed; get_auth_status is executed whatever isReady() is.
C27_DispatchGatedOnAuthentication ==
  [][\A name \in ToolNames \cup UnknownTools :
       (NoReturn /\ CallTool(name)) =>
         /\ name \notin ToolNames =>
              /\ reply'.kind = "McpError" /\ reply'.code = "MethodNotFound"
              /\ ~reply'.invoked
              /\ apiCalls' = apiCalls
         /\ (name \in ToolNames \ {"get_auth_status"}
               /\ ~(isAuthenticated /\ ValidStored(tokenFile, now))) =>
              /\ reply' = ToolRejection
              /\ apiCalls' = apiCalls
         /\ name = "get_auth_status" =>
              /\ reply'.kind = "returned"
              /\ reply'.content.authenticated = (isAuthenticated /\ ValidStored(tokenFile, now))
              /\ apiCalls' = apiCalls]_vars

\* A tool call has been refused by the authentication check on a client that
\* is not ready, with no brokerage call made.
C27_Witness ==
  /\ reply = ToolRejection
  /\ ~(isAuthenticated /\ ValidStored(tokenFile, now))
  /\ apiCalls = <<>>

\* C28: if the stored token is valid when authenticate() runs, no listener is
\* opened, startAuthFlow is not called and the stored token is left unchanged,
\* then and for the rest of the run; a flow is started only when the stored
\* token is absent or invalid.
C28_NoHandshakeWhenAuthenticated ==
  [][/\ \A portTaken \in BOOLEAN :
          Authenticate(portTaken) =>
            IF ValidStored(tokenFile, now)
            THEN /\ nflows' = nflows /\ promise' = promise
                 /\ listener' = listener /\ server' = server /\ timers' = timers
                 /\ tokenFile' = tokenFile
            ELSE nflows' = nflows + 1
     /\ nflows' # nflows => ~ValidStored(tokenFile, now)
     /\ entry = "authenticated" =>
          /\ nflows' = 0
          /\ \A f \in Flows : listener'[f] = "none"
          /\ tokenFile' = tokenFile]_vars

\* authenticate() has returned on a valid stored token, a moment after the
\* script was started: no flow was started and no listener was opened.
C28_Witness ==
  /\ entry = "authenticated"
  /\ now > 0
  /\ ValidStored(tokenFile, now)
  /\ nflows = 0
  /\ \A f \in Flows : listener[f] = "none"

====
